---- MODULE Spec2Model ----
(***************************************************************************)
(* Model of the visitor counter: the IP anonymization pipeline             *)
(* (netlify/functions/ip-anonymizer.mjs) and the visit handlers            *)
(* (netlify/functions/visit.mjs, its predecessor, and server.js).          *)
(*                                                                         *)
(* 32-bit unsigned words are pairs <<hi, lo>> of 16-bit halves, so that    *)
(* every wrap-around mod 2^32 of the source is computed exactly.           *)
(* Arbitrary-precision integers (BigInt) are little-endian sequences of    *)
(* base-10000 limbs without leading zero limbs.                            *)
(***************************************************************************)
EXTENDS Integers, Sequences, FiniteSets

\* ------------------------------------------------------------------------
\* 32-bit unsigned arithmetic
\* ------------------------------------------------------------------------

W16 == 256 * 256

\* Throughout, CASE v = v -> e is e with v evaluated first: a loop hands its
\* new state to the next round already evaluated, as the source does, and a
\* function evaluates its statements in the order they are written.

Add32(a, b) ==
    LET lo == a[2] + b[2]
        hi == a[1] + b[1] + (lo \div W16)
    IN  <<hi % W16, lo % W16>>

AddSmall32(a, v) == Add32(a, <<0, v>>)

\* Math.imul(a, b) read as an unsigned word: the low 32 bits of a * b,
\* from the byte products p0 + p1 * 2^8 + p2 * 2^16 + p3 * 2^24
imul(a, b) ==
    LET a0 == a[2] % 256
        a1 == a[2] \div 256
        a2 == a[1] % 256
        a3 == a[1] \div 256
        b0 == b[2] % 256
        b1 == b[2] \div 256
        b2 == b[1] % 256
        b3 == b[1] \div 256
        p0 == a0 * b0
        p1 == a0 * b1 + a1 * b0
        p2 == a0 * b2 + a1 * b1 + a2 * b0
        p3 == a0 * b3 + a1 * b2 + a2 * b1 + a3 * b0
        lo == p0 + (p1 * 256)
        hi == (lo \div W16) + p2 + (p3 * 256)
    IN  <<hi % W16, lo % W16>>

\* a % m for a small modulus m
Mod32(a, m) == ((a[1] % m) * (W16 % m) + (a[2] % m)) % m

RECURSIVE XorBits(_, _)
XorBits(a, b) ==
    IF a = 0 THEN b
    ELSE IF b = 0 THEN a
    ELSE (((a % 2) + (b % 2)) % 2) + 2 * XorBits(a \div 2, b \div 2)

\* h ^ code for a 16-bit character code
Xor32(h, code) == <<h[1], XorBits(h[2], code)>>

\* ------------------------------------------------------------------------
\* Step 1: IP address -> 32-bit seed
\* A string is a sequence of one-character strings.
\* ------------------------------------------------------------------------

Digits == <<"0", "1", "2", "3", "4", "5", "6", "7", "8", "9">>

IsDigit(c) == \E i \in 1..10 : Digits[i] = c

DigitVal(c) == (CHOOSE i \in 1..10 : Digits[i] = c) - 1

\* charCodeAt for the characters an input may hold
CharCode(c) ==
    IF IsDigit(c) THEN 48 + DigitVal(c)
    ELSE CASE c = " " -> 32
           [] c = "." -> 46
           [] c = ":" -> 58
           [] c = "[" -> 91
           [] c = "]" -> 93
           [] c = "x" -> 120

\* String.prototype.trim, and the trimming StringToNumber does
RECURSIVE TrimLeft(_)
TrimLeft(str) ==
    IF str # <<>> /\ Head(str) = " " THEN TrimLeft(Tail(str)) ELSE str

RECURSIVE TrimRight(_)
TrimRight(str) ==
    IF str # <<>> /\ str[Len(str)] = " "
    THEN TrimRight(SubSeq(str, 1, Len(str) - 1))
    ELSE str

Trim(str) == TrimRight(TrimLeft(str))

\* ip.replace(/^\[|\]$/g, ""): a "[" at the start and a "]" at the end
StripBrackets(str) ==
    LET a == IF str # <<>> /\ Head(str) = "[" THEN Tail(str) ELSE str
    IN  IF a # <<>> /\ a[Len(a)] = "]" THEN SubSeq(a, 1, Len(a) - 1) ELSE a

Includes(str, c) == \E i \in 1..Len(str) : str[i] = c

\* str.split("."): the pieces between the dots, empty pieces kept
RECURSIVE SplitFrom(_, _, _)
SplitFrom(str, i, cur) ==
    IF i > Len(str) THEN <<cur>>
    ELSE IF str[i] = "." THEN <<cur>> \o SplitFrom(str, i + 1, <<>>)
    ELSE SplitFrom(str, i + 1, Append(cur, str[i]))

Split(str) == SplitFrom(str, 1, <<>>)

NaN == [nan |-> TRUE, val |-> 0]

Num(v) == [nan |-> FALSE, val |-> v]

AllDigits(str) == \A i \in 1..Len(str) : IsDigit(str[i])

\* the value of a digit string in the given radix
RECURSIVE DigitsValue(_, _, _)
DigitsValue(acc, str, radix) ==
    IF str = <<>> THEN acc
    ELSE LET acc1 == acc * radix + DigitVal(Head(str))
         IN  CASE acc1 = acc1 -> DigitsValue(acc1, Tail(str), radix)

\* Number(str) for a dot-free string: white space is trimmed, the empty
\* string is 0, decimal digits are a decimal literal, "0x" and hex digits
\* are a hex literal, anything else is NaN
Number(str) ==
    LET t == Trim(str)
    IN  IF t = <<>> THEN Num(0)
        ELSE IF AllDigits(t) THEN Num(DigitsValue(0, t, 10))
        ELSE IF Len(t) >= 3 /\ t[1] = "0" /\ t[2] = "x"
                /\ AllDigits(SubSeq(t, 3, Len(t)))
             THEN Num(DigitsValue(0, SubSeq(t, 3, Len(t)), 16))
        ELSE NaN

\* n >= 0 && n <= 255 (false of NaN)
IsOctet(n) == ~n.nan /\ n.val >= 0 /\ n.val <= 255

\* the string after line 16
Cleaned(ip) == Trim(StripBrackets(ip))

\* the condition under which line 22 returns
TakesIPv4Branch(ip) ==
    LET c == Cleaned(ip)
    IN  /\ Includes(c, ".")
        /\ LET p == [i \in 1..Len(Split(c)) |-> Number(Split(c)[i])]
           IN  Len(p) = 4 /\ \A i \in 1..4 : IsOctet(p[i])

\* (p[0] * 16777216 + p[1] * 65536 + p[2] * 256 + p[3]) >>> 0
PackOctets(p) == <<p[1].val * 256 + p[2].val, p[3].val * 256 + p[4].val>>

\* 2166136261 = 0x811C9DC5, 16777619 = 0x01000193
FnvOffset == <<33052, 40389>>
FnvPrime  == <<256, 403>>

RECURSIVE Fnv1a(_, _)
Fnv1a(h, str) ==
    IF str = <<>> THEN h
    ELSE LET h1 == imul(Xor32(h, CharCode(Head(str))), FnvPrime)
         IN  CASE h1 = h1 -> Fnv1a(h1, Tail(str))

ipToSeed(ip) ==
    LET c == Cleaned(ip)
    IN  IF TakesIPv4Branch(ip)
        THEN PackOctets([i \in 1..4 |-> Number(Split(c)[i])])
        ELSE Fnv1a(FnvOffset, c)

\* ------------------------------------------------------------------------
\* Seeded LCG
\* ------------------------------------------------------------------------

\* 1664525 = 0x0019660D, 1013904223 = 0x3C6EF35F
LCGMul == <<25, 26125>>
LCGInc == <<15470, 62303>>

\* s = seed >>> 0
makeLCG(seed) == seed

\* one call of the closure: the new state, which is also the value returned
rng(s) == Add32(imul(LCGMul, s), LCGInc)

\* ------------------------------------------------------------------------
\* Step 2: seed -> snowflake
\* ------------------------------------------------------------------------

Max(a, b) == IF a >= b THEN a ELSE b

\* the loop of seedToSnowflake: n more branches drawn from state s
RECURSIVE DrawBranches(_, _, _)
DrawBranches(s, armLength, n) ==
    IF n = 0 THEN <<>>
    ELSE LET s1 == rng(s)
             s2 == rng(s1)
             b  == [pos |-> Mod32(s1, Max(1, armLength - 1)) + 1,
                    len |-> Mod32(s2, 3) + 1]
         IN  <<b>> \o DrawBranches(s2, armLength, n - 1)

\* b placed after every element whose pos is not larger (stable)
RECURSIVE InsertByPos(_, _)
InsertByPos(sorted, b) ==
    IF sorted = <<>> THEN <<b>>
    ELSE IF Head(sorted).pos - b.pos <= 0
         THEN <<Head(sorted)>> \o InsertByPos(Tail(sorted), b)
         ELSE <<b>> \o sorted

\* a sort that is not stable: b goes before the elements of equal pos
RECURSIVE InsertBeforeEqual(_, _)
InsertBeforeEqual(sorted, b) ==
    IF sorted = <<>> THEN <<b>>
    ELSE IF Head(sorted).pos - b.pos < 0
         THEN <<Head(sorted)>> \o InsertBeforeEqual(Tail(sorted), b)
         ELSE <<b>> \o sorted

RECURSIVE SortByPosUnstable(_)
SortByPosUnstable(bs) ==
    IF bs = <<>> THEN <<>>
    ELSE InsertBeforeEqual(SortByPosUnstable(SubSeq(bs, 1, Len(bs) - 1)),
                           bs[Len(bs)])

\* branches.sort((a, b) => a.pos - b.pos): Array.prototype.sort is stable
RECURSIVE SortByPos(_)
SortByPos(bs) ==
    IF bs = <<>> THEN <<>>
    ELSE InsertByPos(SortByPos(SubSeq(bs, 1, Len(bs) - 1)), bs[Len(bs)])

RECURSIVE FlatBranches(_)
FlatBranches(bs) ==
    IF bs = <<>> THEN <<>>
    ELSE <<Head(bs).pos, Head(bs).len>> \o FlatBranches(Tail(bs))

\* the branches array as pushed by the loop, before branches.sort
DrawnBranches(seed) ==
    LET s1 == rng(makeLCG(seed))
        s2 == rng(s1)
    IN  DrawBranches(s2, Mod32(s1, 6) + 2, Mod32(s2, 4) + 1)

seedToSnowflake(seed) ==
    LET s1 == rng(makeLCG(seed))
        s2 == rng(s1)
        armLength   == Mod32(s1, 6) + 2
        numBranches == Mod32(s2, 4) + 1
        branches    == SortByPos(DrawBranches(s2, armLength, numBranches))
    IN  [armLength |-> armLength,
         branches  |-> branches,
         genome    |-> <<armLength, numBranches>> \o FlatBranches(branches)]

\* ------------------------------------------------------------------------
\* Step 3: snowflake -> Rubik's cube state
\* Arrays are sequences: the element at JS index i is at position i + 1.
\* ------------------------------------------------------------------------

\* while (!vis[j]) { vis[j] = true; j = perm[j]; len++; }
RECURSIVE WalkCycle(_, _, _, _)
WalkCycle(perm, vis, j, len) ==
    IF j \in vis THEN [vis |-> vis, len |-> len]
    ELSE LET len1 == len + 1
         IN  CASE len1 = len1 -> WalkCycle(perm, vis \cup {j}, perm[j + 1], len1)

RECURSIVE ParityFrom(_, _, _, _)
ParityFrom(perm, vis, i, p) ==
    IF i >= Len(perm) THEN p % 2
    ELSE IF i \in vis THEN ParityFrom(perm, vis, i + 1, p)
    ELSE LET w == WalkCycle(perm, vis, i, 0)
             p1 == IF w.len % 2 = 0 THEN p + 1 ELSE p
         IN  CASE p1 = p1 -> ParityFrom(perm, w.vis, i + 1, p1)

permParity(perm) == ParityFrom(perm, {}, 0, 0)

Swap(arr, i, j) == [arr EXCEPT ![i + 1] = arr[j + 1], ![j + 1] = arr[i + 1]]

\* for (i = arr.length - 1; i > 0; i--) { j = rng() % (i + 1); swap }
RECURSIVE ShuffleFrom(_, _, _)
ShuffleFrom(arr, s, i) ==
    IF i <= 0 THEN [arr |-> arr, s |-> s]
    ELSE LET s1 == rng(s)
             a1 == Swap(arr, i, Mod32(s1, i + 1))
         IN  CASE a1 = a1 -> ShuffleFrom(a1, s1, i - 1)

shuffle(arr, s) == ShuffleFrom(arr, s, Len(arr) - 1)

\* n draws of rng() % m, pushed in order
RECURSIVE DrawDigitsFrom(_, _, _, _)
DrawDigitsFrom(arr, s, n, m) ==
    IF n = 0 THEN [arr |-> arr, s |-> s]
    ELSE LET s1 == rng(s)
             a1 == Append(arr, Mod32(s1, m))
         IN  CASE a1 = a1 -> DrawDigitsFrom(a1, s1, n - 1, m)

DrawDigits(s, n, m) == DrawDigitsFrom(<<>>, s, n, m)

RECURSIVE SumSeq(_)
SumSeq(q) == IF q = <<>> THEN 0 ELSE Head(q) + SumSeq(Tail(q))

\* genome.reduce((h, v) => (Math.imul(h, 31) + v) >>> 0, 0xdeadbeef)
RECURSIVE HashGenome(_, _)
HashGenome(h, genome) ==
    IF genome = <<>> THEN h
    ELSE LET h1 == AddSmall32(imul(h, <<0, 31>>), Head(genome))
         IN  CASE h1 = h1 -> HashGenome(h1, Tail(genome))

\* 0xdeadbeef
CubeSeedInit == <<57005, 48879>>

Iota(n) == [i \in 1..n |-> i - 1]

\* a repair that looks at the edge parity alone
FixParityEdgesOnly(corners, edges) ==
    IF permParity(edges) % 2 # 0 THEN Swap(edges, 10, 11) ELSE edges

\* if ((permParity(corners) + permParity(edges)) % 2 !== 0) swap edges[10], edges[11]
FixParity(corners, edges) ==
    IF (permParity(corners) + permParity(edges)) % 2 # 0
    THEN Swap(edges, 10, 11)
    ELSE edges

LastCornerOrient(coSum) == (3 - (coSum % 3)) % 3

LastEdgeOrient(eoSum) == eoSum % 2

snowflakeToRubiksCube(snowflake) ==
    LET cubeSeed == HashGenome(CubeSeedInit, snowflake.genome)
        cs  == shuffle(Iota(8), makeLCG(cubeSeed))
        cod == DrawDigits(cs.s, 7, 3)
        es  == shuffle(Iota(12), cod.s)
        eod == DrawDigits(es.s, 11, 2)
    IN  CASE cubeSeed = cubeSeed /\ cs = cs /\ cod = cod /\ es = es
               /\ eod = eod ->
          [corners |-> cs.arr,
           co      |-> Append(cod.arr, LastCornerOrient(SumSeq(cod.arr))),
           edges   |-> FixParity(cs.arr, es.arr),
           eo      |-> Append(eod.arr, LastEdgeOrient(SumSeq(eod.arr)))]

\* the edge array as shuffled, before the parity repair
EdgesBeforeFix(snowflake) ==
    LET cubeSeed == HashGenome(CubeSeedInit, snowflake.genome)
        cs  == shuffle(Iota(8), makeLCG(cubeSeed))
        cod == DrawDigits(cs.s, 7, 3)
    IN  shuffle(Iota(12), cod.s).arr

\* ------------------------------------------------------------------------
\* BigInt: little-endian base-10000 limbs, no leading zero limb (0n = <<>>)
\* ------------------------------------------------------------------------

BigBase == 100 * 100

RECURSIVE BigTrim(_)
BigTrim(a) ==
    IF a = <<>> THEN <<>>
    ELSE IF a[Len(a)] = 0 THEN BigTrim(SubSeq(a, 1, Len(a) - 1))
    ELSE a

RECURSIVE BigFromInt(_)
BigFromInt(n) ==
    IF n = 0 THEN <<>> ELSE <<n % BigBase>> \o BigFromInt(n \div BigBase)

RECURSIVE BigAddC(_, _, _)
BigAddC(a, b, c) ==
    IF a = <<>> /\ b = <<>> THEN (IF c = 0 THEN <<>> ELSE <<c>>)
    ELSE LET x == (IF a = <<>> THEN 0 ELSE Head(a))
                  + (IF b = <<>> THEN 0 ELSE Head(b)) + c
         IN  <<x % BigBase>> \o BigAddC(IF a = <<>> THEN <<>> ELSE Tail(a),
                                        IF b = <<>> THEN <<>> ELSE Tail(b),
                                        x \div BigBase)

BigAdd(a, b) == BigTrim(BigAddC(a, b, 0))

RECURSIVE BigMulLimb(_, _, _)
BigMulLimb(a, m, c) ==
    IF a = <<>> THEN (IF c = 0 THEN <<>> ELSE <<c>>)
    ELSE LET x == Head(a) * m + c
         IN  <<x % BigBase>> \o BigMulLimb(Tail(a), m, x \div BigBase)

RECURSIVE BigMulRaw(_, _)
BigMulRaw(a, b) ==
    IF b = <<>> THEN <<>>
    ELSE BigAddC(BigMulLimb(a, Head(b), 0), <<0>> \o BigMulRaw(a, Tail(b)), 0)

BigMul(a, b) == BigTrim(BigMulRaw(a, b))

\* a <= b
RECURSIVE BigLeq(_, _)
BigLeq(a, b) ==
    IF Len(a) # Len(b) THEN Len(a) < Len(b)
    ELSE IF a = <<>> THEN TRUE
    ELSE IF a[Len(a)] # b[Len(b)] THEN a[Len(a)] < b[Len(b)]
    ELSE BigLeq(SubSeq(a, 1, Len(a) - 1), SubSeq(b, 1, Len(b) - 1))

\* the decimal digits of one limb, most significant first, zero-padded to 4
LimbDigits(x) ==
    <<x \div 1000, (x \div 100) % 10, (x \div 10) % 10, x % 10>>

RECURSIVE DropZeros(_)
DropZeros(d) ==
    IF Len(d) > 1 /\ Head(d) = 0 THEN DropZeros(Tail(d)) ELSE d

RECURSIVE BigDigits(_)
BigDigits(a) ==
    IF a = <<>> THEN <<>>
    ELSE LimbDigits(a[Len(a)]) \o BigDigits(SubSeq(a, 1, Len(a) - 1))

\* uniqueId.toString(): the decimal digits, most significant first
BigToString(a) ==
    LET d == IF a = <<>> THEN <<0>> ELSE DropZeros(BigDigits(a))
    IN  [i \in 1..Len(d) |-> Digits[d[i] + 1]]

\* ------------------------------------------------------------------------
\* Step 4: cube state -> integer
\* The factorial cache is a function from its keys to their values.
\* ------------------------------------------------------------------------

\* new Map([[0n, 1n], [1n, 1n]])
FactCacheInit == [k \in {0, 1} |-> 1]

CachePut(cache, n, r) ==
    [k \in DOMAIN cache \cup {n} |-> IF k = n THEN r ELSE cache[k]]

RECURSIVE fact(_, _)

\* a fact that files its result under the key n - 1
factMisfiled(n, cache) ==
    IF n \in DOMAIN cache THEN [val |-> cache[n], cache |-> cache]
    ELSE LET f == fact(n - 1, cache)
             r == n * f.val
         IN  [val |-> r, cache |-> CachePut(f.cache, n - 1, r)]

\* fact(n): the value and the cache it leaves
fact(n, cache) ==
    IF n \in DOMAIN cache THEN [val |-> cache[n], cache |-> cache]
    ELSE LET f == fact(n - 1, cache)
             r == n * f.val
         IN  [val |-> r, cache |-> CachePut(f.cache, n, r)]

\* avail.indexOf(v)
RECURSIVE IndexOf(_, _)
IndexOf(avail, v) ==
    IF avail = <<>> THEN -1
    ELSE IF Head(avail) = v THEN 0
    ELSE LET r == IndexOf(Tail(avail), v) IN IF r < 0 THEN -1 ELSE r + 1

\* avail.splice(pos, 1)
Splice(avail, pos) ==
    SubSeq(avail, 1, pos) \o SubSeq(avail, pos + 2, Len(avail))

RECURSIVE LehmerFrom(_, _, _, _, _)
LehmerFrom(perm, avail, i, idx, cache) ==
    IF i >= Len(perm) THEN [idx |-> idx, cache |-> cache]
    ELSE LET pos == IndexOf(avail, perm[i + 1])
             f   == fact(Len(perm) - 1 - i, cache)
             st  == [avail |-> Splice(avail, pos),
                     idx   |-> idx + pos * f.val,
                     cache |-> f.cache]
         IN  CASE st = st -> LehmerFrom(perm, st.avail, i + 1, st.idx, st.cache)

lehmer(perm, cache) == LehmerFrom(perm, Iota(Len(perm)), 0, 0, cache)

\* digits.reduce((a, v) => a * radix + v, 0)
RECURSIVE ReduceDigits(_, _, _)
ReduceDigits(a, digits, radix) ==
    IF digits = <<>> THEN a
    ELSE LET a1 == a * radix + Head(digits)
         IN  CASE a1 = a1 -> ReduceDigits(a1, Tail(digits), radix)

\* a packing that multiplies by the edge-orientation radix in both places
PackOneRadix(cpIdx, coIdx, epIdx, eoIdx, rCo, rEp, rEo) ==
    BigFromInt((((((cpIdx * rEo) + coIdx) * rEp) + epIdx) * rEo) + eoIdx)

\* ((cpIdx * rCo + coIdx) * rEp + epIdx) * rEo + eoIdx over BigInt
Pack(cpIdx, coIdx, epIdx, eoIdx, rCo, rEp, rEo) ==
    BigAdd(BigMul(BigAdd(BigMul(BigAdd(BigMul(BigFromInt(cpIdx),
                                              BigFromInt(rCo)),
                                       BigFromInt(coIdx)),
                                BigFromInt(rEp)),
                         BigFromInt(epIdx)),
                  BigFromInt(rEo)),
           BigFromInt(eoIdx))

\* an encoder that reads all 8 corner-orientation digits, not the 7 free ones
cubeStateToNumberAllDigits(cube, cache) ==
    LET cp    == lehmer(cube.corners, cache)
        coIdx == ReduceDigits(0, cube.co, 3)
        ep    == lehmer(cube.edges, cp.cache)
        eoIdx == ReduceDigits(0, SubSeq(cube.eo, 1, 11), 2)
    IN  CASE cp = cp /\ coIdx = coIdx /\ ep = ep /\ eoIdx = eoIdx ->
          [id    |-> Pack(cp.idx, coIdx, ep.idx, eoIdx, 2187, 479001600, 2048),
           cache |-> ep.cache]

cubeStateToNumber(cube, cache) ==
    LET cp    == lehmer(cube.corners, cache)
        coIdx == ReduceDigits(0, SubSeq(cube.co, 1, 7), 3)
        ep    == lehmer(cube.edges, cp.cache)
        eoIdx == ReduceDigits(0, SubSeq(cube.eo, 1, 11), 2)
    IN  CASE cp = cp /\ coIdx = coIdx /\ ep = ep /\ eoIdx = eoIdx ->
          [id    |-> Pack(cp.idx, coIdx, ep.idx, eoIdx, 2187, 479001600, 2048),
           cache |-> ep.cache]

RECURSIVE Pow(_, _)
Pow(b, e) == IF e = 0 THEN 1 ELSE b * Pow(b, e - 1)

\* cubeStateToNumber for a puzzle of nc corners and ne edges: the slices keep
\* all but the last digit and the radices are 3^(nc-1), ne! and 2^(ne-1)
\* (2187, 479001600 and 2048 when nc = 8 and ne = 12)
cubeStateToNumberScaled(cube, cache, nc, ne) ==
    LET cp    == lehmer(cube.corners, cache)
        coIdx == ReduceDigits(0, SubSeq(cube.co, 1, nc - 1), 3)
        ep    == lehmer(cube.edges, cp.cache)
        eoIdx == ReduceDigits(0, SubSeq(cube.eo, 1, ne - 1), 2)
        f     == fact(ne, ep.cache)
    IN  CASE cp = cp /\ coIdx = coIdx /\ ep = ep /\ eoIdx = eoIdx ->
          [id    |-> Pack(cp.idx, coIdx, ep.idx, eoIdx,
                          Pow(3, nc - 1), f.val, Pow(2, ne - 1)),
           cache |-> ep.cache]

\* line 274, n being what cubeStateToNumber returned and the cache it left
AnonymizedAs(sf, cube, n) ==
    CASE n = n ->
      [anonymizedId |-> BigToString(n.id),
       snowflake    |-> sf,
       cubeState    |-> cube,
       cache        |-> n.cache]

\* line 273
AnonymizeCube(sf, cube, cache) ==
    CASE cube = cube -> AnonymizedAs(sf, cube, cubeStateToNumber(cube, cache))

\* line 272
AnonymizeSnowflake(sf, cache) ==
    CASE sf = sf -> AnonymizeCube(sf, snowflakeToRubiksCube(sf), cache)

\* line 271
AnonymizeSeed(s, cache) ==
    CASE s = s -> AnonymizeSnowflake(seedToSnowflake(s), cache)

anonymizeIp(ip, cache) == AnonymizeSeed(ipToSeed(ip), cache)

\* ------------------------------------------------------------------------
\* ASCII rendering
\* ------------------------------------------------------------------------

\* a centre row with too little room above and below
CentreRowTight(armLength) == armLength + 1

\* cx = armLength * 2 + 6, cy = armLength + 3
CentreCol(armLength) == (armLength * 2) + 6
CentreRow(armLength) == armLength + 3

\* W = cx * 2 + 1, H = cy * 2 + 1
GridW(armLength) == (CentreCol(armLength) * 2) + 1
GridH(armLength) == (CentreRow(armLength) * 2) + 1

Dir(dc, dr, ch) == [dc |-> dc, dr |-> dr, ch |-> ch]

Arm(dc, dr, ch, b1, b2) == [dc |-> dc, dr |-> dr, ch |-> ch, bDirs |-> <<b1, b2>>]

ARMS ==
    << Arm(2, 0, "-",   Dir(1, -1, "/"),   Dir(1, 1, "\\")),
       Arm(1, -1, "/",  Dir(2, 0, "-"),    Dir(-1, -1, "\\")),
       Arm(-1, -1, "\\", Dir(1, -1, "/"),  Dir(-2, 0, "-")),
       Arm(-2, 0, "-",  Dir(-1, -1, "\\"), Dir(-1, 1, "/")),
       Arm(-1, 1, "/",  Dir(-2, 0, "-"),   Dir(1, 1, "\\")),
       Arm(1, 1, "\\",  Dir(-1, 1, "/"),   Dir(2, 0, "-")) >>

\* Array.from({ length: H }, () => Array(W).fill(" ")), grid[cy][cx] = "+"
BlankGrid(armLength) ==
    [r \in 0..(GridH(armLength) - 1) |->
       [c \in 0..(GridW(armLength) - 1) |->
          IF r = CentreRow(armLength) /\ c = CentreCol(armLength)
          THEN "+" ELSE " "]]

\* the guard of plot
InGrid(r, c, armLength) ==
    r >= 0 /\ r < GridH(armLength) /\ c >= 0 /\ c < GridW(armLength)

plot(grid, call, armLength) ==
    IF InGrid(call.r, call.c, armLength)
    THEN [grid EXCEPT ![call.r][call.c] = call.ch]
    ELSE grid

\* the plot calls of one side-branch along bd, rooted at (r, c)
BranchCalls(r, c, bd, len) ==
    [bl \in 1..len |-> [r  |-> r + (bl * bd.dr),
                        c  |-> c + (bl * bd.dc),
                        ch |-> IF bl = len THEN "*" ELSE bd.ch]]

\* for (const branch of branches) if (branch.pos === d) for (const bd of arm.bDirs)
RECURSIVE BranchesAt(_, _, _, _, _)
BranchesAt(branches, d, arm, r, c) ==
    IF branches = <<>> THEN <<>>
    ELSE (IF Head(branches).pos = d
          THEN BranchCalls(r, c, arm.bDirs[1], Head(branches).len)
                 \o BranchCalls(r, c, arm.bDirs[2], Head(branches).len)
          ELSE <<>>)
         \o BranchesAt(Tail(branches), d, arm, r, c)

\* for (let d = 1; d <= armLength; d++): the plot calls from distance d on
RECURSIVE ArmCalls(_, _, _, _)
ArmCalls(arm, d, cy, snowflake) ==
    IF d > snowflake.armLength THEN <<>>
    ELSE LET r == cy + (d * arm.dr)
             c == CentreCol(snowflake.armLength) + (d * arm.dc)
         IN  <<[r |-> r, c |-> c,
                ch |-> IF d = snowflake.armLength THEN "*" ELSE arm.ch]>>
             \o BranchesAt(snowflake.branches, d, arm, r, c)
             \o ArmCalls(arm, d + 1, cy, snowflake)

\* every call of plot, in the order the loops make them
PlotCalls(snowflake) ==
    LET cy == CentreRow(snowflake.armLength)
        calls(i) == ArmCalls(ARMS[i], 1, cy, snowflake)
    IN  calls(1) \o calls(2) \o calls(3) \o calls(4) \o calls(5) \o calls(6)

RECURSIVE PlotAll(_, _, _)
PlotAll(grid, calls, armLength) ==
    IF calls = <<>> THEN grid
    ELSE LET g == plot(grid, Head(calls), armLength)
         IN  CASE g = g -> PlotAll(g, Tail(calls), armLength)

\* for (const arm of ARMS): the grid after the arms from the i-th on
RECURSIVE DrawArms(_, _, _)
DrawArms(grid, i, snowflake) ==
    IF i > Len(ARMS) THEN grid
    ELSE LET a == snowflake.armLength
             g == PlotAll(grid, ArmCalls(ARMS[i], 1, CentreRow(a), snowflake), a)
         IN  CASE g = g -> DrawArms(g, i + 1, snowflake)

\* the calls the guard of plot discards
ClippedCalls(snowflake) ==
    SelectSeq(PlotCalls(snowflake),
              LAMBDA k : ~InGrid(k.r, k.c, snowflake.armLength))

\* grid.map((row) => row.join("")).join("\n"): h rows of w characters with
\* a line break after every row but the last
JoinRows(grid, h, w) ==
    [k \in 1..((h * (w + 1)) - 1) |->
       IF k % (w + 1) = 0 THEN "\n"
       ELSE grid[(k - 1) \div (w + 1)][(k - 1) % (w + 1)]]

drawSnowflake(snowflake) ==
    LET a    == snowflake.armLength
        grid == DrawArms(BlankGrid(a), 1, snowflake)
    IN  CASE grid = grid -> JoinRows(grid, GridH(a), GridW(a))

\* ------------------------------------------------------------------------
\* The visit handlers: server.js (a JSON file), the legacy Netlify function
\* and visit.mjs (both on the "data" key of the "visitors" blob store).
\* A document is a record tagged with the array it holds, "ips" or
\* "visitors"; NoDoc stands for a file or a key that does not exist yet.
\* ------------------------------------------------------------------------

\* no document stored yet: readFileSync throws, store.get resolves to null
NoDoc == [kind |-> "none"]

\* a request without the x-nf-client-connection-ip header
NoIp == <<>>

IpsDoc(count, ips) == [kind |-> "ips", count |-> count, ips |-> ips]

VisitorsDoc(count, visitors) ==
    [kind |-> "visitors", count |-> count, visitors |-> visitors]

\* try { JSON.parse(readFileSync) } catch { return { count: 0, ips: [] } }
loadData(stored) == IF stored = NoDoc THEN IpsDoc(0, <<>>) ELSE stored

\* (await store.get("data", { type: "json" })) || fallback
StoreGet(stored, fallback) == IF stored = NoDoc THEN fallback ELSE stored

\* data.ips.includes(ip)
IpsInclude(data, addr) == \E i \in 1..Len(data.ips) : data.ips[i] = addr

\* an alreadySeen that looks at the newest entry only
alreadySeenNewest(data, id) ==
    data.visitors # <<>> /\ data.visitors[Len(data.visitors)].id = id

\* data.visitors.some((v) => v.id === anonymizedId)
alreadySeen(data, id) ==
    \E i \in 1..Len(data.visitors) : data.visitors[i].id = id

\* the for loop of migrateIfNeeded: the visitors pushed and the cache left
RECURSIVE MigrateEntries(_, _, _)

\* line 14: visitors.push({ id: anonymizedId, crystal: drawSnowflake(snowflake) })
MigratePush(rest, visitors, r, c) ==
    CASE c = c ->
      MigrateEntries(rest,
                     Append(visitors, [id |-> r.anonymizedId, crystal |-> c]),
                     r.cache)

\* lines 13-14, r being what anonymizeIp(entry) returned
MigrateRawIp(rest, visitors, r) ==
    CASE r = r -> MigratePush(rest, visitors, r, drawSnowflake(r.snowflake))

MigrateEntries(ips, visitors, cache) ==
    CASE visitors = visitors ->
      IF ips = <<>> THEN [visitors |-> visitors, cache |-> cache]
      ELSE IF Includes(Head(ips), ".") \/ Includes(Head(ips), ":")
           THEN MigrateRawIp(Tail(ips), visitors,
                             anonymizeIp(Head(ips), cache))
           ELSE MigrateEntries(Tail(ips),
                               Append(visitors,
                                      [id |-> Head(ips), crystal |-> <<>>]),
                               cache)

\* line 20: return { count: data.count, visitors }
Migrated(count, m) ==
    CASE m = m -> [data |-> VisitorsDoc(count, m.visitors), cache |-> m.cache]

\* !data.visitors && Array.isArray(data.ips)
migrateIfNeeded(data, cache) ==
    IF data.kind = "ips"
    THEN Migrated(data.count, MigrateEntries(data.ips, <<>>, cache))
    ELSE [data |-> data, cache |-> cache]

\* what a handler has decided when it reaches its write: the identifier it
\* looked up, the document it holds, whether it writes it, the count it
\* answers with
Outcome(id, data, write, cache) ==
    [id |-> id, data |-> data, write |-> write, count |-> data.count,
     cache |-> cache]

\* server.js lines 30-39
serverVisit(stored, addr, cache) ==
    LET data == loadData(stored)
    IN  IF ~IpsInclude(data, addr)
        THEN Outcome(addr, IpsDoc(data.count + 1, Append(data.ips, addr)),
                     TRUE, cache)
        ELSE Outcome(addr, data, FALSE, cache)

\* the legacy function, lines 4-18
legacyVisit(stored, addr, cache) ==
    LET data == StoreGet(stored, IpsDoc(0, <<>>))
    IN  IF addr # NoIp /\ ~IpsInclude(data, addr)
        THEN Outcome(addr, IpsDoc(data.count + 1, Append(data.ips, addr)),
                     TRUE, cache)
        ELSE Outcome(addr, data, FALSE, cache)

\* visit.mjs lines 26-44
\* lines 38-40: push, count++, setJSON
VisitNew(data, r, c) ==
    CASE c = c ->
      Outcome(r.anonymizedId,
              VisitorsDoc(data.count + 1,
                          Append(data.visitors,
                                 [id |-> r.anonymizedId, crystal |-> c])),
              TRUE, r.cache)

\* lines 35-41, r being what anonymizeIp(rawIp) returned
VisitLookedUp(data, r) ==
    CASE r = r ->
      IF ~alreadySeen(data, r.anonymizedId)
      THEN VisitNew(data, r, drawSnowflake(r.snowflake))
      ELSE Outcome(r.anonymizedId, data, FALSE, r.cache)

\* lines 31-44, m being the document after migrateIfNeeded
VisitMigrated(m, rawIp) ==
    CASE m = m ->
      IF rawIp # NoIp
      THEN VisitLookedUp(m.data, anonymizeIp(rawIp, m.cache))
      ELSE Outcome(NoIp, m.data, FALSE, m.cache)

netlifyVisit(stored, rawIp, cache) ==
    VisitMigrated(migrateIfNeeded(StoreGet(stored, VisitorsDoc(0, <<>>)),
                                  cache),
                  rawIp)

\* ------------------------------------------------------------------------
\* State
\* ------------------------------------------------------------------------

VARIABLES
    entry,         \* which exported function or handler the caller entered by
    stage,         \* how far the call has got
    ip,            \* the address string given to ipToSeed
    seed,          \* the 32-bit seed
    snowflake,     \* { armLength, branches, genome }
    cubeState,     \* { corners, co, edges, eo }
    uniqueId,      \* the BigInt cubeStateToNumber returned
    factCache,     \* the module-level _factCache
    perm,          \* the permutation given to lehmer
    lehmerIdx,     \* what lehmer returned
    crystal,       \* the string drawSnowflake returned
    clipped,       \* the plot calls the guard of plot discarded
    file,          \* data.json of server.js
    blob,          \* the "data" key of the "visitors" blob store
    pending,       \* the handler invocations between their two awaits
    seen,          \* the requests answered so far
    writeLog,      \* the count of every document written, in order
    last           \* what the last answered request did

pipeVars   == <<entry, stage, ip, seed, snowflake, cubeState, uniqueId, factCache>>
lehmerVars == <<perm, lehmerIdx>>
drawVars   == <<crystal, clipped>>
visitVars  == <<file, blob, pending, seen, writeLog, last>>
vars       == <<pipeVars, lehmerVars, drawVars, visitVars>>

NoSeed      == <<0, 0>>
NoSnowflake == [armLength |-> 0, branches |-> <<>>, genome |-> <<>>]
NoCube      == [corners |-> <<>>, co |-> <<>>, edges |-> <<>>, eo |-> <<>>]

NoLast == [handler |-> "none"]

LehmerIdle == perm = <<>> /\ lehmerIdx = 0
DrawIdle   == crystal = <<>> /\ clipped = <<>>
VisitIdle  ==
    /\ file = NoDoc /\ blob = NoDoc /\ pending = <<>>
    /\ seen = {} /\ writeLog = <<>> /\ last = NoLast

\* ------------------------------------------------------------------------
\* The pipeline, entered at seedToSnowflake, at snowflakeToRubiksCube or at
\* cubeStateToNumber (all three are exported)
\* ------------------------------------------------------------------------

MaxSeedLow == 255

\* 0.0.x.y, 192.168.x.y, 255.255.x.y
SeedHighs == {0, 49320, 65535}

Seeds == {<<h, l>> : h \in SeedHighs, l \in 0..MaxSeedLow}

\* every snowflake of the data model: armLength 2..7, 1..4 branches with
\* pos in 1..armLength-1 and len in 1..3, in ascending pos
SnowflakesOf(a, n) ==
    LET sortedPos == { p \in [1..n -> 1..(a - 1)] :
                       \A i \in 1..(n - 1) : p[i] <= p[i + 1] }
    IN  { LET bs == [i \in 1..n |-> [pos |-> p[i], len |-> l[i]]]
          IN  [armLength |-> a, branches |-> bs,
               genome |-> <<a, n>> \o FlatBranches(bs)] :
          p \in sortedPos, l \in [1..n -> 1..3] }

MaxEntryBranches == 3

\* the snowflakes given to snowflakeToRubiksCube directly
EntrySnowflakes(maxBranches) ==
    UNION { SnowflakesOf(a, n) : a \in 2..7, n \in 1..maxBranches }

Reversed(n) == [i \in 1..n |-> n - i]

\* n - 1 free digits d and the forced last one
OrientAll(n, d, m) ==
    LET free == [i \in 1..(n - 1) |-> d]
    IN  Append(free, IF m = 3 THEN LastCornerOrient(SumSeq(free))
                     ELSE LastEdgeOrient(SumSeq(free)))

\* cube states given to cubeStateToNumber directly: both permutations the
\* identity or the reversal, every free orientation digit the same
CornerCubes ==
    { [corners |-> c, co |-> OrientAll(8, d, 3),
       edges |-> e, eo |-> OrientAll(12, b, 2)] :
      c \in {Iota(8), Reversed(8)}, d \in 0..2,
      e \in {Iota(12), Reversed(12)}, b \in 0..1 }

Init ==
    /\ \/ /\ entry = "seed"
          /\ seed \in Seeds
          /\ snowflake = NoSnowflake
          /\ cubeState = NoCube
       \/ /\ entry = "snowflake"
          /\ seed = NoSeed
          /\ snowflake \in EntrySnowflakes(MaxEntryBranches)
          /\ cubeState = NoCube
       \/ /\ entry = "cube"
          /\ seed = NoSeed
          /\ snowflake = NoSnowflake
          /\ cubeState \in CornerCubes
    /\ stage = entry
    /\ ip = <<>>
    /\ uniqueId = <<>>
    /\ factCache = FactCacheInit
    /\ LehmerIdle /\ DrawIdle /\ VisitIdle

SeedToSnowflake ==
    /\ stage = "seed"
    /\ snowflake' = seedToSnowflake(seed)
    /\ stage' = "snowflake"
    /\ UNCHANGED <<entry, ip, seed, cubeState, uniqueId, factCache,
                 lehmerVars, drawVars, visitVars>>

SnowflakeToRubiksCube ==
    /\ stage = "snowflake"
    /\ cubeState' = snowflakeToRubiksCube(snowflake)
    /\ stage' = "cube"
    /\ UNCHANGED <<entry, ip, seed, snowflake, uniqueId, factCache,
                 lehmerVars, drawVars, visitVars>>

CubeStateToNumber ==
    /\ stage = "cube"
    /\ LET r == cubeStateToNumber(cubeState, factCache)
       IN  uniqueId' = r.id /\ factCache' = r.cache
    /\ stage' = "id"
    /\ UNCHANGED <<entry, ip, seed, snowflake, cubeState,
                 lehmerVars, drawVars, visitVars>>

Next == SeedToSnowflake \/ SnowflakeToRubiksCube \/ CubeStateToNumber

Spec == Init /\ [][Next]_vars

\* ------------------------------------------------------------------------
\* Properties of the pipeline (specification Spec)
\* ------------------------------------------------------------------------

IsPermutation(arr, n) ==
    Len(arr) = n /\ {arr[i] : i \in 1..n} = 0..(n - 1)

\* the cycle of perm through i, as a set of indices
RECURSIVE Orbit(_, _, _)
Orbit(p, j, acc) ==
    IF j \in acc THEN acc ELSE Orbit(p, p[j + 1], acc \cup {j})

\* the number of even-length cycles of perm, mod 2
EvenCycleParity(p) ==
    Cardinality({ o \in { Orbit(p, i, {}) : i \in 0..(Len(p) - 1) } :
                  Cardinality(o) % 2 = 0 }) % 2

FromGenerator == entry \in {"seed", "snowflake"} /\ stage \in {"cube", "id"}

\* C1: every cube state snowflakeToRubiksCube returns has corners a
\* permutation of 0..7, edges a permutation of 0..11, orientation digits in
\* range with sum(co) mod 3 = 0 and sum(eo) mod 2 = 0, and an even combined
\* parity (number of even-length cycles); when the parity is odd after the two
\* shuffles, the edges returned are the shuffled ones with the last two swapped
C1_CubeValid ==
    FromGenerator =>
      /\ IsPermutation(cubeState.corners, 8)
      /\ IsPermutation(cubeState.edges, 12)
      /\ Len(cubeState.co) = 8 /\ \A i \in 1..8 : cubeState.co[i] \in 0..2
      /\ Len(cubeState.eo) = 12 /\ \A i \in 1..12 : cubeState.eo[i] \in 0..1
      /\ SumSeq(cubeState.co) % 3 = 0
      /\ SumSeq(cubeState.eo) % 2 = 0
      /\ (EvenCycleParity(cubeState.corners)
            + EvenCycleParity(cubeState.edges)) % 2 = 0
      /\ LET before == EdgesBeforeFix(snowflake)
         IN  cubeState.edges =
               IF (EvenCycleParity(cubeState.corners)
                     + EvenCycleParity(before)) % 2 = 1
               THEN Swap(before, 10, 11)
               ELSE before

\* a cube whose edges had to be repaired
C1_Witness ==
    /\ FromGenerator
    /\ (EvenCycleParity(cubeState.corners)
          + EvenCycleParity(EdgesBeforeFix(snowflake))) % 2 = 1

FromSeed == entry = "seed" /\ stage \in {"snowflake", "cube", "id"}

\* the branches with the given pos, in the order of bs
WithPos(bs, p) == SelectSeq(bs, LAMBDA b : b.pos = p)

\* C8: seedToSnowflake returns armLength in 2..7, 1..4 branches with pos in
\* 1..armLength-1 and len in 1..3, in non-decreasing pos with equal-pos
\* branches in draw order, and genome = [armLength, numBranches, pos1, len1,
\* ...] of length 2 + 2 * numBranches
C8_SnowflakeShape ==
    FromSeed =>
      LET a  == snowflake.armLength
          bs == snowflake.branches
          n  == Len(bs)
          g  == snowflake.genome
          drawn == DrawnBranches(seed)
      IN  /\ a \in 2..7
          /\ n \in 1..4
          /\ \A i \in 1..n : bs[i].pos \in 1..(a - 1) /\ bs[i].len \in 1..3
          /\ a = 2 => \A i \in 1..n : bs[i].pos = 1
          /\ \A i \in 1..(n - 1) : bs[i].pos <= bs[i + 1].pos
          /\ Len(drawn) = n
          /\ \A p \in 1..(a - 1) : WithPos(bs, p) = WithPos(drawn, p)
          /\ Len(g) = 2 + 2 * n
          /\ g[1] = a /\ g[2] = n
          /\ \A i \in 1..n : g[2 * i + 1] = bs[i].pos /\ g[2 * i + 2] = bs[i].len

\* the shortest arm with four branches, two of them tied with the longer
\* drawn first
C8_Witness ==
    /\ FromSeed
    /\ snowflake.armLength = 2
    /\ Len(snowflake.branches) = 4
    /\ \E i \in 1..3 : snowflake.branches[i].len > snowflake.branches[i + 1].len

IsBigNat(a) ==
    /\ \A i \in 1..Len(a) : a[i] \in 0..(BigBase - 1)
    /\ a = <<>> \/ a[Len(a)] # 0

\* 8! * 3^7 * 12! * 2^11
RadixProduct ==
    BigMul(BigMul(BigFromInt(40320), BigFromInt(2187)),
           BigMul(BigFromInt(479001600), BigFromInt(2048)))

\* 86504006548979711999
MaxUniqueId == <<1999, 7971, 5489, 4006, 8650>>

\* 88580102706155724799
ClaimedMaxId == <<4799, 5572, 7061, 102, 8858>>

\* cpIdx, coIdx, epIdx and eoIdx are all maximal
AllMaximal(cube) ==
    /\ cube.corners = Reversed(8)
    /\ cube.edges = Reversed(12)
    /\ \A i \in 1..7 : cube.co[i] = 2
    /\ \A i \in 1..11 : cube.eo[i] = 1

MaxPermLen == 5

\* the permutations of 0..n-1
PermsOf(n) ==
    { p \in [1..n -> 0..(n - 1)] :
      \A i \in 1..n : \A j \in 1..n : p[i] = p[j] => i = j }

\* _factCache after fact(m) has been called
CacheAfter(m) == fact(m, FactCacheInit).cache

InitLehmer ==
    /\ entry = "lehmer" /\ stage = "perm"
    /\ \E n \in 0..MaxPermLen : perm \in PermsOf(n)
    /\ \E m \in 1..MaxPermLen : factCache = CacheAfter(m)
    /\ lehmerIdx = 0
    /\ ip = <<>> /\ seed = NoSeed /\ snowflake = NoSnowflake
    /\ cubeState = NoCube /\ uniqueId = <<>>
    /\ DrawIdle /\ VisitIdle

Lehmer ==
    /\ entry = "lehmer" /\ stage = "perm"
    /\ LET r == lehmer(perm, factCache)
       IN  lehmerIdx' = r.idx /\ factCache' = r.cache
    /\ stage' = "idx"
    /\ UNCHANGED <<entry, ip, seed, snowflake, cubeState, uniqueId, perm,
                   drawVars, visitVars>>

NextLehmer == Lehmer

SpecLehmer == InitLehmer /\ [][NextLehmer]_vars

RECURSIVE Factorial(_)
Factorial(n) == IF n <= 1 THEN 1 ELSE n * Factorial(n - 1)

\* divide by (n-1-i)!, take the quotient-th element still available
RECURSIVE InverseFrom(_, _, _, _)
InverseFrom(idx, avail, i, n) ==
    IF i >= n THEN <<>>
    ELSE LET f    == Factorial(n - 1 - i)
             rank == idx \div f
         IN  <<avail[rank + 1]>>
             \o InverseFrom(idx % f, Splice(avail, rank), i + 1, n)

InverseLehmer(idx, n) == InverseFrom(idx, Iota(n), 0, n)

\* C5: for every permutation perm of 0..n-1 and every content of _factCache
\* left by earlier calls, lehmer(perm) lies in [0, n!-1] and the inverse
\* Lehmer procedure applied to it gives back perm (so lehmer is one-to-one
\* from the n! permutations into the n! values of the range); the cache it
\* leaves still holds k! under every key k
C5_LehmerRoundTrip ==
    (entry = "lehmer" /\ stage = "idx") =>
      /\ lehmerIdx \in 0..(Factorial(Len(perm)) - 1)
      /\ InverseLehmer(lehmerIdx, Len(perm)) = perm
      /\ \A k \in DOMAIN factCache : factCache[k] = Factorial(k)

\* a permutation of several elements encoded when fact had to compute
\* factorials the cache did not hold
C5_Witness ==
    /\ entry = "lehmer" /\ stage = "idx"
    /\ Len(perm) = MaxPermLen
    /\ lehmerIdx = Factorial(MaxPermLen) - 1
    /\ DOMAIN factCache = 0..(MaxPermLen - 1)

\* ------------------------------------------------------------------------
\* cubeStateToNumber at scaled-down piece counts
\* ------------------------------------------------------------------------

NumCorners == 3
NumEdges   == 3

\* orientation digits whose last one is the forced one
Orientations(n, m) ==
    { Append(free, IF m = 3 THEN LastCornerOrient(SumSeq(free))
                   ELSE LastEdgeOrient(SumSeq(free))) :
      free \in [1..(n - 1) -> 0..(m - 1)] }

\* the states given to the encoder: every permutation pair, of either
\* parity, with orientation digits that sum to 0
ScaledCubes(nc, ne) ==
    { [corners |-> c, co |-> o, edges |-> e, eo |-> f] :
      c \in PermsOf(nc), o \in Orientations(nc, 3),
      e \in PermsOf(ne), f \in Orientations(ne, 2) }

InitScaled ==
    /\ entry = "scaled" /\ stage = "cube"
    /\ cubeState \in ScaledCubes(NumCorners, NumEdges)
    /\ factCache = FactCacheInit
    /\ ip = <<>> /\ seed = NoSeed /\ snowflake = NoSnowflake /\ uniqueId = <<>>
    /\ LehmerIdle /\ DrawIdle /\ VisitIdle

CubeStateToNumberScaled ==
    /\ entry = "scaled" /\ stage = "cube"
    /\ LET r == cubeStateToNumberScaled(cubeState, factCache,
                                        NumCorners, NumEdges)
       IN  uniqueId' = r.id /\ factCache' = r.cache
    /\ stage' = "id"
    /\ UNCHANGED <<entry, ip, seed, snowflake, cubeState,
                   lehmerVars, drawVars, visitVars>>

NextScaled == CubeStateToNumberScaled

SpecScaled == InitScaled /\ [][NextScaled]_vars

\* the three validity invariants
ScaledValid(cube) ==
    /\ SumSeq(cube.co) % 3 = 0
    /\ SumSeq(cube.eo) % 2 = 0
    /\ (EvenCycleParity(cube.corners) + EvenCycleParity(cube.edges)) % 2 = 0

RECURSIVE BigToInt(_)
BigToInt(a) == IF a = <<>> THEN 0 ELSE Head(a) + (BigBase * BigToInt(Tail(a)))

\* n digits of x in the given radix, most significant first
RECURSIVE DigitsOf(_, _, _)
DigitsOf(x, n, radix) ==
    IF n = 0 THEN <<>>
    ELSE Append(DigitsOf(x \div radix, n - 1, radix), x % radix)

\* the size of the range, 8! * 3^7 * 12! * 2^11 at full size
ScaledRange ==
    Factorial(NumCorners) * Pow(3, NumCorners - 1)
      * Factorial(NumEdges) * Pow(2, NumEdges - 1)

\* unpack the four indices, invert both Lehmer codes, restore the forced digits
DecodeScaled(id) ==
    LET n     == BigToInt(id)
        rEo   == Pow(2, NumEdges - 1)
        rEp   == Factorial(NumEdges)
        rCo   == Pow(3, NumCorners - 1)
        eoIdx == n % rEo
        epIdx == (n \div rEo) % rEp
        coIdx == (n \div (rEo * rEp)) % rCo
        cpIdx == n \div (rEo * rEp * rCo)
        co    == DigitsOf(coIdx, NumCorners - 1, 3)
        eo    == DigitsOf(eoIdx, NumEdges - 1, 2)
    IN  [corners |-> InverseLehmer(cpIdx, NumCorners),
         co      |-> Append(co, (3 - (SumSeq(co) % 3)) % 3),
         edges   |-> InverseLehmer(epIdx, NumEdges),
         eo      |-> Append(eo, SumSeq(eo) % 2)]

ScaledEncoded == entry = "scaled" /\ stage = "id"

InScaledRange(id) == IsBigNat(id) /\ BigLeq(id, BigFromInt(ScaledRange - 1))

\* id is the uniqueId of a valid state: the state it decodes to is valid and
\* encodes to id
IsValidScaledId(id) ==
    LET c == DecodeScaled(id)
    IN  /\ ScaledValid(c)
        /\ cubeStateToNumberScaled(c, FactCacheInit, NumCorners, NumEdges).id = id

MaxParts == 4

\* what may stand between two dots: nothing, decimal octets, a number out of
\* range, a hex literal, a padded number, a piece of an IPv6 literal
SeedParts ==
    { <<>>, <<"1">>, <<"2">>, <<"3">>, <<"2", "5", "5">>, <<"2", "5", "6">>,
      <<"0", "x", "2">>, <<" ", "7">>, <<":", ":", "1">> }

RECURSIVE JoinDots(_)
JoinDots(parts) ==
    IF Len(parts) = 1 THEN parts[1]
    ELSE parts[1] \o <<".">> \o JoinDots(Tail(parts))

\* the strings given to ipToSeed: 1..MaxParts pieces joined by dots, bare or
\* in IPv6 brackets
IpStrings(maxParts) ==
    UNION { { JoinDots(ps) : ps \in [1..k -> SeedParts] } \cup
            { <<"[">> \o JoinDots(ps) \o <<"]">> : ps \in [1..k -> SeedParts] } :
            k \in 1..maxParts }

InitSeed ==
    /\ entry = "ip" /\ stage = "ip"
    /\ ip \in IpStrings(MaxParts)
    /\ seed = NoSeed /\ snowflake = NoSnowflake /\ cubeState = NoCube
    /\ uniqueId = <<>> /\ factCache = FactCacheInit
    /\ LehmerIdle /\ DrawIdle /\ VisitIdle

IpToSeed ==
    /\ entry = "ip" /\ stage = "ip"
    /\ seed' = ipToSeed(ip)
    /\ stage' = "seed"
    /\ UNCHANGED <<entry, ip, snowflake, cubeState, uniqueId, factCache,
                   lehmerVars, drawVars, visitVars>>

NextSeed == IpToSeed

SpecSeed == InitSeed /\ [][NextSeed]_vars

\* a non-empty string of decimal digits with a value in [0,255]
IsDecimalOctet(part) ==
    part # <<>> /\ AllDigits(part) /\ DigitsValue(0, part, 10) <= 255

\* four dot-separated decimal octets
IsDottedQuad(str) ==
    LET parts == Split(str)
    IN  Len(parts) = 4 /\ \A i \in 1..4 : IsDecimalOctet(parts[i])

\* o0 * 2^24 + o1 * 2^16 + o2 * 2^8 + o3, as two 16-bit halves
QuadValue(str) ==
    LET o == [i \in 1..4 |-> DigitsValue(0, Split(str)[i], 10)]
    IN  <<(o[1] * 256) + o[2], (o[3] * 256) + o[4]>>

\* C6: ipToSeed returns the packed octets exactly when the trimmed input is
\* four dot-separated decimal octets each in [0,255], and the FNV-1a hash of
\* the string for every other input
C6_IPv4BranchExact ==
    (entry = "ip" /\ stage = "seed") =>
      LET c == Cleaned(ip)
      IN  /\ TakesIPv4Branch(ip) <=> IsDottedQuad(c)
          /\ seed = IF IsDottedQuad(c) THEN QuadValue(c)
                    ELSE Fnv1a(FnvOffset, c)

\* ------------------------------------------------------------------------
\* drawSnowflake on its own
\* ------------------------------------------------------------------------

MaxDrawBranches == 2

\* the snowflakes given to drawSnowflake
DrawnSnowflakes(maxBranches) ==
    UNION { SnowflakesOf(a, n) : a \in 2..7, n \in 1..maxBranches }

InitDraw ==
    /\ entry = "draw" /\ stage = "snowflake"
    /\ snowflake \in DrawnSnowflakes(MaxDrawBranches)
    /\ ip = <<>> /\ seed = NoSeed /\ cubeState = NoCube
    /\ uniqueId = <<>> /\ factCache = FactCacheInit
    /\ LehmerIdle /\ DrawIdle /\ VisitIdle

DrawSnowflake ==
    /\ entry = "draw" /\ stage = "snowflake"
    /\ crystal' = drawSnowflake(snowflake)
    /\ clipped' = ClippedCalls(snowflake)
    /\ stage' = "drawn"
    /\ UNCHANGED <<entry, ip, seed, snowflake, cubeState, uniqueId, factCache,
                   lehmerVars, visitVars>>

NextDraw == DrawSnowflake

SpecDraw == InitDraw /\ [][NextDraw]_vars

Drawn == entry = "draw" /\ stage = "drawn"

\* the characters of the string other than blanks and line breaks
Inked(str) == { i \in 1..Len(str) : str[i] \notin {" ", "\n"} }

\* C7: for armLength in [2,7] and branches with pos in [1, armLength-1] and
\* len in [1,3], every cell drawSnowflake plots has 0 <= r < H and 0 <= c < W
\* with H = 2*(armLength+3)+1 and W = 2*(2*armLength+6)+1: the guard of plot
\* discards nothing, and every plotted cell (and the centre) shows in the
\* H rows of W characters returned
C7_PlotInBounds ==
    Drawn =>
      LET a == snowflake.armLength
          H == (2 * (a + 3)) + 1
          W == (2 * ((2 * a) + 6)) + 1
          calls == PlotCalls(snowflake)
      IN  /\ clipped = <<>>
          /\ \A k \in 1..Len(calls) :
               /\ 0 <= calls[k].r /\ calls[k].r < H
               /\ 0 <= calls[k].c /\ calls[k].c < W
          /\ Len(crystal) = (H * W) + (H - 1)
          /\ Inked(crystal) =
               { (calls[k].r * (W + 1)) + calls[k].c + 1 : k \in 1..Len(calls) }
                 \cup { ((a + 3) * (W + 1)) + ((2 * a) + 6) + 1 }

\* the largest case: armLength 7 with a branch of len 3 at pos 6
C7_Witness ==
    /\ Drawn
    /\ snowflake.armLength = 7
    /\ \E i \in 1..Len(snowflake.branches) :
         snowflake.branches[i] = [pos |-> 6, len |-> 3]
    /\ crystal # <<>>

\* ------------------------------------------------------------------------
\* Visit requests handled one after another: a deployment is either the
\* Express server or the Netlify function, and the Netlify function is the
\* legacy one until it is replaced by visit.mjs
\* ------------------------------------------------------------------------

\* two private IPv4 addresses and the IPv6 loopback
VisitorAddrs ==
    { <<"1", "9", "2", ".", "1", "6", "8", ".", "1", ".", "6">>,
      <<"1", "9", "2", ".", "1", "6", "8", ".", "1", ".", "1", "8">>,
      <<":", ":", "1">> }

InitVisit ==
    /\ \/ entry = "server" /\ stage = "express"
       \/ entry = "netlify" /\ stage \in {"legacy", "current"}
    /\ file = NoDoc /\ blob = NoDoc /\ pending = <<>>
    /\ seen = {} /\ writeLog = <<>> /\ last = NoLast
    /\ factCache = FactCacheInit
    /\ ip = <<>> /\ seed = NoSeed /\ snowflake = NoSnowflake
    /\ cubeState = NoCube /\ uniqueId = <<>>
    /\ LehmerIdle /\ DrawIdle

\* the request has been answered: what it did, and the write if it made one
Answered(handler, addr, before, o) ==
    /\ seen' = seen \cup {[handler |-> handler, ip |-> addr, id |-> o.id]}
    /\ writeLog' = IF o.write THEN Append(writeLog, o.data.count) ELSE writeLog
    /\ last' = [handler |-> handler, id |-> o.id, write |-> o.write,
                before |-> before,
                after |-> IF o.write THEN o.data ELSE before,
                count |-> o.count]
    /\ factCache' = o.cache

ServerVisit ==
    /\ entry = "server"
    /\ \E addr \in VisitorAddrs :
         \E o \in {serverVisit(file, addr, factCache)} :
             /\ file' = IF o.write THEN o.data ELSE file
             /\ Answered("server", addr, file, o)
    /\ UNCHANGED <<entry, stage, ip, seed, snowflake, cubeState, uniqueId,
                   blob, pending, lehmerVars, drawVars>>

LegacyVisit ==
    /\ entry = "netlify" /\ stage = "legacy"
    /\ \E addr \in VisitorAddrs \cup {NoIp} :
         \E o \in {legacyVisit(blob, addr, factCache)} :
             /\ blob' = IF o.write THEN o.data ELSE blob
             /\ Answered("legacy", addr, blob, o)
    /\ UNCHANGED <<entry, stage, ip, seed, snowflake, cubeState, uniqueId,
                   file, pending, lehmerVars, drawVars>>

\* visit.mjs replaces the legacy function
Upgrade ==
    /\ entry = "netlify" /\ stage = "legacy"
    /\ stage' = "current"
    /\ UNCHANGED <<entry, ip, seed, snowflake, cubeState, uniqueId, factCache,
                   lehmerVars, drawVars, visitVars>>

NetlifyVisit ==
    /\ entry = "netlify" /\ stage = "current"
    /\ \E rawIp \in VisitorAddrs \cup {NoIp} :
         \E o \in {netlifyVisit(blob, rawIp, factCache)} :
             /\ blob' = IF o.write THEN o.data ELSE blob
             /\ Answered("current", rawIp, blob, o)
    /\ UNCHANGED <<entry, stage, ip, seed, snowflake, cubeState, uniqueId,
                   file, pending, lehmerVars, drawVars>>

NextVisit == ServerVisit \/ LegacyVisit \/ Upgrade \/ NetlifyVisit

SpecVisit == InitVisit /\ [][NextVisit]_vars

\* the identifiers a document holds, in order
Entries(doc) ==
    IF doc.kind = "ips" THEN doc.ips
    ELSE IF doc.kind = "visitors"
         THEN [i \in 1..Len(doc.visitors) |-> doc.visitors[i].id]
    ELSE <<>>

Count(doc) == IF doc = NoDoc THEN 0 ELSE doc.count

Range(f) == { f[i] : i \in DOMAIN f }

Stored(handler) == IF handler = "server" THEN file ELSE blob

\* the array a handler keeps
FormatOf(handler) == IF handler = "current" THEN "visitors" ELSE "ips"

\* the distinct identifiers among the requests a handler has answered
IdsSeen(handler) ==
    { r.id : r \in { x \in seen : x.handler = handler /\ x.id # NoIp } }

\* every request so far went to this handler, so it started from no document
OnlyHandler(handler) == seen # {} /\ \A r \in seen : r.handler = handler

\* C9: after any sequence of non-overlapping requests from the empty
\* document the stored count equals the number of stored entries and the
\* number of distinct identifiers among the requests; a request whose
\* identifier is already stored (or that has none) writes nothing and leaves
\* the document as it was; a request with a new identifier appends exactly
\* one entry and raises count by exactly 1; the answer is the stored count
C9_CountsNewVisitors ==
    entry \in {"server", "netlify"} =>
      /\ \A h \in {"server", "legacy", "current"} :
           OnlyHandler(h) =>
             /\ Count(Stored(h)) = Len(Entries(Stored(h)))
             /\ Count(Stored(h)) = Cardinality(IdsSeen(h))
             /\ Range(Entries(Stored(h))) = IdsSeen(h)
      /\ Count(blob) = Len(Entries(blob))
      /\ writeLog = [k \in 1..Count(Stored(IF entry = "server" THEN "server"
                                           ELSE "current")) |-> k]
      /\ (last # NoLast /\ last.before.kind \in {"none", FormatOf(last.handler)}) =>
           LET known == last.id \in Range(Entries(last.before))
           IN  /\ last.after = Stored(last.handler)
               /\ last.count = Count(last.after)
               /\ (known \/ last.id = NoIp) =>
                    ~last.write /\ last.after = last.before
               /\ (~known /\ last.id # NoIp) =>
                    /\ last.write
                    /\ Entries(last.after) = Append(Entries(last.before), last.id)
                    /\ Count(last.after) = Count(last.before) + 1

\* visit.mjs has answered a repeated visitor after a new one
C9_Witness ==
    /\ entry = "netlify" /\ OnlyHandler("current")
    /\ last # NoLast /\ ~last.write /\ last.id # NoIp
    /\ Count(blob) = 2

\* C2: two requests whose addresses give distinct seeds never get the same
\* anonymized id, so deduplicating by id never merges two addresses
C2_DistinctSeedsDistinctIds ==
    \A r1 \in seen : \A r2 \in seen :
      (r1.handler = "current" /\ r2.handler = "current"
         /\ r1.ip # NoIp /\ r2.ip # NoIp
         /\ ipToSeed(r1.ip) # ipToSeed(r2.ip)) => r1.id # r2.id

\* ------------------------------------------------------------------------
\* Overlapping invocations of the Netlify function: each one reads the
\* document (await store.get), decides, and writes it back later
\* (await store.setJSON); other invocations run between the two awaits
\* ------------------------------------------------------------------------

NumInvocations == 3

Invocations == 1..NumInvocations

NotStarted == [pc |-> "start"]

InitRace ==
    /\ entry = "race" /\ stage \in {"legacy", "current"}
    /\ pending = [i \in Invocations |-> NotStarted]
    /\ file = NoDoc /\ blob = NoDoc
    /\ seen = {} /\ writeLog = <<>> /\ last = NoLast
    /\ factCache = FactCacheInit
    /\ ip = <<>> /\ seed = NoSeed /\ snowflake = NoSnowflake
    /\ cubeState = NoCube /\ uniqueId = <<>>
    /\ LehmerIdle /\ DrawIdle

\* store.get resolves: the handler runs up to its store.setJSON, or to its
\* answer when it has nothing to write
Get(i) ==
    /\ entry = "race" /\ pending[i].pc = "start"
    /\ \E addr \in VisitorAddrs :
         \E o \in {IF stage = "legacy" THEN legacyVisit(blob, addr, factCache)
                    ELSE netlifyVisit(blob, addr, factCache)} :
             /\ pending' = [pending EXCEPT ![i] =
                              IF o.write THEN [pc |-> "setJSON", data |-> o.data]
                              ELSE [pc |-> "done", count |-> o.count]]
             /\ seen' = seen \cup {[handler |-> stage, ip |-> addr, id |-> o.id]}
             /\ factCache' = o.cache
    /\ UNCHANGED <<entry, stage, ip, seed, snowflake, cubeState, uniqueId,
                   file, blob, writeLog, last, lehmerVars, drawVars>>

\* store.setJSON("data", data) takes effect and the handler answers
Put(i) ==
    /\ entry = "race" /\ pending[i].pc = "setJSON"
    /\ blob' = pending[i].data
    /\ writeLog' = Append(writeLog, pending[i].data.count)
    /\ pending' = [pending EXCEPT ![i] =
                     [pc |-> "done", count |-> pending[i].data.count]]
    /\ UNCHANGED <<entry, stage, ip, seed, snowflake, cubeState, uniqueId,
                   factCache, file, seen, last, lehmerVars, drawVars>>

NextRace == \E i \in Invocations : Get(i) \/ Put(i)

SpecRace == InitRace /\ [][NextRace]_vars

AllDone == \A i \in Invocations : pending[i].pc = "done"

\* C10: once all overlapping invocations have completed, the stored document
\* holds one entry for every distinct id that visited and its count is that
\* number; and the stored count never decreases from one write to the next
C10_NoVisitLost ==
    entry = "race" =>
      /\ AllDone =>
           /\ Range(Entries(blob)) = IdsSeen(stage)
           /\ Len(Entries(blob)) = Cardinality(IdsSeen(stage))
           /\ Count(blob) = Cardinality(IdsSeen(stage))
      /\ \A k \in 1..(Len(writeLog) - 1) : writeLog[k] <= writeLog[k + 1]

====
